---- MODULE Spec2Model ----
(***************************************************************************)
(* Model of the financial_search dispatcher (financial-search.ts) and of   *)
(* the financial-statement adapters (fundamentals.ts).                     *)
(*                                                                         *)
(* The body of createFinancialSearch.func is an async function; every      *)
(* stretch of code between two awaits runs atomically on the event loop    *)
(* and is one action here:                                                 *)
(*   Invoke          entry of func up to `await callLlm(...)`              *)
(*   LlmReject       callLlm rejects: the catch block returns              *)
(*   LlmResolve      callLlm resolves: the empty check and the synchronous *)
(*                   part of every map callback (lookup, tool.invoke)      *)
(*   ToolResolve(i)  tool.invoke of call i resolves: parse, build result   *)
(*   ToolReject(i)   tool.invoke of call i rejects: catch, build result    *)
(*   Aggregate       Promise.all resolves: partition, merge, return        *)
(***************************************************************************)
EXTENDS Naturals, Sequences, FiniteSets, TLC

(***************************************************************************)
(* Bounds of the model.                                                    *)
(***************************************************************************)
\* largest number of tool calls in one decision of the router
MaxCalls == 2

(***************************************************************************)
(* Values the inputs are drawn from.                                       *)
(***************************************************************************)
\* stands for a missing `ticker` property of tc.args (JS undefined)
NoTicker == "<undefined>"

\* tc.args.ticker: missing, the empty string, or a symbol
Tickers == {NoTicker, "", "AAPL", "TSLA"}

\* names of the registry (a part of FINANCE_TOOLS: one statement tool and
\* one snapshot tool named by the router prompt)
FINANCE_TOOL_MAP == {"get_income_statements", "get_price_snapshot"}

\* names the language model can emit: registered ones and one that is not
ToolNames == FINANCE_TOOL_MAP \cup {"get_weather"}

\* a ToolCall of the decision
ToolCall == [name : ToolNames, args : [ticker : Tickers]]

\* the tool_calls field of the AIMessage: missing, or a list of ToolCalls
NoToolCalls == <<>>

ToolCallLists == UNION {[1..n -> ToolCall] : n \in 0..MaxCalls}

\* what `${error}` prints for the errors callLlm rejects with
LlmErrors == {"Error: network", "Error: timeout", "SyntaxError: malformed response"}

\* strings a tool resolves with: envelopes written by formatToolResult
\* (sourceUrls present or left out), and text that is not JSON
Envelopes ==
    { [data |-> "p1"],
      [data |-> "p1", sourceUrls |-> <<"u1">>],
      [data |-> "p2", sourceUrls |-> <<"u2", "u1">>] }

RawResults ==
    { [json |-> TRUE, value |-> e] : e \in Envelopes } \cup { [json |-> FALSE] }

\* messages of the errors tool.invoke rejects with (upstream HTTP failure,
\* schema violation)
ToolErrors == {"API request failed"}

VARIABLES
    pc,           \* position of func: "idle", "llm", "tools", "done"
    toolCalls,    \* response.tool_calls as received
    hasToolCalls, \* FALSE when response.tool_calls is undefined
    lookups,      \* indices of the calls looked up in FINANCE_TOOL_MAP
    invoked,      \* indices of the calls for which tool.invoke was called
    outcome,      \* what tool.invoke of a call settled with
    results,      \* results of the settled map callbacks, by index
    order,        \* indices of the calls in the order they settled
    returned,     \* <<>> while running, then <<the string func returned>>
    llmError,     \* <<>>, or <<the error callLlm rejected with>>
    fpc,          \* position of a statement adapter: "idle", "api", "done"
    fTool,        \* name of the statement adapter that was invoked
    fInput,       \* its input after the schema was applied
    fRequests,    \* the callApi requests it issued, in order
    fResponses,   \* what the requests that resolved resolved with, by index
    fReturned,    \* <<>>, or <<the envelope the adapter returned>>
    fThrown       \* <<>>, or <<message of the error the adapter threw>>

svars == <<pc, toolCalls, hasToolCalls, lookups, invoked, outcome, results, order, returned, llmError>>

fvars == <<fpc, fTool, fInput, fRequests, fResponses, fReturned, fThrown>>

vars == <<svars, fvars>>

(***************************************************************************)
(* Pure helpers of financial-search.ts                                     *)
(***************************************************************************)
\* formatToolResult(data, sourceUrls): the {data, sourceUrls} envelope
formatToolResult(data, sourceUrls) == [data |-> data, sourceUrls |-> sourceUrls]

\* {} of JavaScript: an object without properties
EmptyObject == [k \in {} |-> ""]

\* obj[key] = value
SetProp(obj, key, value) ==
    [k \in DOMAIN obj \cup {key} |-> IF k = key THEN value ELSE obj[k]]

\* SuccessResult with the URLs of the envelope dropped
SuccessResult_NoUrls(tc, parsed) ==
    [ tool       |-> tc.name,
      args       |-> tc.args,
      data       |-> parsed.data,
      sourceUrls |-> <<>>,
      error      |-> <<>> ]

\* result of a map callback whose try block ran to its end (lines 131-138)
SuccessResult(tc, parsed) ==
    [ tool       |-> tc.name,
      args       |-> tc.args,
      data       |-> parsed.data,
      sourceUrls |-> IF "sourceUrls" \in DOMAIN parsed THEN parsed.sourceUrls ELSE <<>>,
      error      |-> <<>> ]

\* result of a map callback that ended in its catch block (lines 139-147);
\* `error` is <<message>>, and <<>> stands for null
FailureResult(tc, message) ==
    [ tool       |-> tc.name,
      args       |-> tc.args,
      data       |-> "null",
      sourceUrls |-> <<>>,
      error      |-> <<message>> ]

\* message of the Error thrown for a name that is not in the registry
NotFoundMessage(name) == "Tool '" \o name \o "' not found"

\* JSON.parse(resultStr) followed by the reads of parsed.data and
\* parsed.sourceUrls: a result, or the message of the SyntaxError
ParsedResult(tc, raw) ==
    IF raw.json THEN SuccessResult(tc, raw.value)
    ELSE FailureResult(tc, "Unexpected token in JSON")

\* KeyOf without the ticker
KeyOf_ToolOnly(result) == result.tool

\* key of a successful result in combinedData (lines 160-161): the ticker
\* is used when it is truthy
KeyOf(result) ==
    IF result.args.ticker # NoTicker /\ result.args.ticker # ""
    THEN result.tool \o "_" \o result.args.ticker
    ELSE result.tool

\* r.error === null
IsSuccess(r) == r.error = <<>>

RECURSIVE successfulResults(_)
successfulResults(rs) ==
    IF rs = <<>> THEN <<>>
    ELSE IF IsSuccess(Head(rs)) THEN <<Head(rs)>> \o successfulResults(Tail(rs))
    ELSE successfulResults(Tail(rs))

RECURSIVE failedResults(_)
failedResults(rs) ==
    IF rs = <<>> THEN <<>>
    ELSE IF ~IsSuccess(Head(rs)) THEN <<Head(rs)>> \o failedResults(Tail(rs))
    ELSE failedResults(Tail(rs))

\* allUrls with repeated URLs removed
RECURSIVE allUrls_Dedup(_)
allUrls_Dedup(rs) ==
    IF rs = <<>> THEN <<>>
    ELSE LET rest == allUrls_Dedup(Tail(rs))
         IN  SelectSeq(Head(rs).sourceUrls,
                       LAMBDA u : \A k \in 1..Len(rest) : rest[k] # u) \o rest

\* results.flatMap((r) => r.sourceUrls)
RECURSIVE allUrls(_)
allUrls(rs) ==
    IF rs = <<>> THEN <<>> ELSE Head(rs).sourceUrls \o allUrls(Tail(rs))

\* the for loop over successfulResults (lines 159-163)
RECURSIVE MergeLoop(_, _)
MergeLoop(rs, combinedData) ==
    IF rs = <<>> THEN combinedData
    ELSE MergeLoop(Tail(rs), SetProp(combinedData, KeyOf(Head(rs)), Head(rs).data))

\* failedResults.map(r => ({tool, args, error}))
ErrorEntries(rs) ==
    [i \in 1..Len(rs) |-> [tool |-> rs[i].tool, args |-> rs[i].args, error |-> rs[i].error[1]]]

\* AggregateResults attaching _errors even when no call failed
AggregateResults_AlwaysErrors(rs) ==
    LET merged == MergeLoop(successfulResults(rs), EmptyObject)
        failed == failedResults(rs)
    IN  formatToolResult(SetProp(merged, "_errors", ErrorEntries(failed)), allUrls(rs))

\* lines 152-174: what func returns for the results of Promise.all
AggregateResults(rs) ==
    LET merged == MergeLoop(successfulResults(rs), EmptyObject)
        failed == failedResults(rs)
        combinedData == IF Len(failed) > 0
                        THEN SetProp(merged, "_errors", ErrorEntries(failed))
                        ELSE merged
    IN  formatToolResult(combinedData, allUrls(rs))

\* the results in the order in which the callbacks settled
ResultsInCompletionOrder == [k \in 1..Len(order) |-> results[order[k]]]

\* the array Promise.all resolves with: the results by index of the call
ResultsInCallOrder == [i \in 1..Len(toolCalls) |-> results[i]]

(***************************************************************************)
(* Actions                                                                 *)
(***************************************************************************)
Init ==
    /\ pc = "idle"
    /\ toolCalls = <<>>
    /\ hasToolCalls = FALSE
    /\ lookups = {}
    /\ invoked = {}
    /\ outcome = EmptyObject
    /\ results = EmptyObject
    /\ order = <<>>
    /\ returned = <<>>
    /\ llmError = <<>>
    /\ fpc = "idle"
    /\ fTool = ""
    /\ fInput = [ticker |-> "", period |-> "", limit |-> 0]
    /\ fRequests = <<>>
    /\ fResponses = EmptyObject
    /\ fReturned = <<>>
    /\ fThrown = <<>>

\* func is called: callLlm is issued with the query (lines 91-104)
Invoke ==
    /\ pc = "idle"
    /\ pc' = "llm"
    /\ UNCHANGED <<toolCalls, hasToolCalls, lookups, invoked, outcome, results, order, returned, llmError>>
    /\ UNCHANGED fvars

\* LlmFailureResult reporting the failure as a per-item error
LlmFailureResult_AsItemError(error) ==
    formatToolResult([_errors |-> <<[tool |-> "callLlm", error |-> "LLM call failed: " \o error]>>], <<>>)

\* what the catch block of the callLlm call returns (line 108)
LlmFailureResult(error) ==
    formatToolResult([error |-> "LLM call failed: " \o error], <<>>)

\* callLlm rejects (lines 106-109)
LlmReject ==
    /\ pc = "llm"
    /\ \E error \in LlmErrors :
          /\ llmError' = <<error>>
          /\ returned' = <<LlmFailureResult(error)>>
    /\ pc' = "done"
    /\ UNCHANGED <<toolCalls, hasToolCalls, lookups, invoked, outcome, results, order>>
    /\ UNCHANGED fvars

\* result of the synchronous part of the map callback of call i for a name
\* that is not registered (lines 124-127, 139-147)
LookupFailures(tcs) ==
    [i \in {j \in 1..Len(tcs) : tcs[j].name \notin FINANCE_TOOL_MAP} |->
        FailureResult(tcs[i], NotFoundMessage(tcs[i].name))]

\* indices 1..n in increasing order, restricted to a set
RECURSIVE Ascending(_, _)
Ascending(n, S) ==
    IF n = 0 THEN <<>>
    ELSE IF n \in S THEN Append(Ascending(n - 1, S), n) ELSE Ascending(n - 1, S)

\* NoToolsSelected without the length check
NoToolsSelected_OnlyMissing(has, tcs) == ~has

\* !toolCalls || toolCalls.length === 0 (line 114)
NoToolsSelected(has, tcs) == ~has \/ Len(tcs) = 0

\* what func returns when no tool was selected (line 116)
NoToolsResult == formatToolResult([error |-> "No tools selected for query"], <<>>)

\* InvokedCalls without the registry check
InvokedCalls_NoLookup(tcs) == 1..Len(tcs)

\* the calls whose name is in the registry: tool.invoke is called for them
\* (lines 124-128)
InvokedCalls(tcs) == {i \in 1..Len(tcs) : tcs[i].name \in FINANCE_TOOL_MAP}

\* callLlm resolves with an AIMessage whose tool_calls is missing or one
\* of lists (lines 111-128)
Decide(lists) ==
    /\ pc = "llm"
    /\ \E has \in BOOLEAN, tcs \in lists :
          /\ (~has => tcs = NoToolCalls)
          /\ hasToolCalls' = has
          /\ toolCalls' = tcs
          /\ IF NoToolsSelected(has, tcs)
             THEN /\ returned' = <<NoToolsResult>>
                  /\ pc' = "done"
                  /\ UNCHANGED <<lookups, invoked, outcome, results, order>>
             ELSE /\ lookups' = 1..Len(tcs)
                  /\ invoked' = InvokedCalls(tcs)
                  /\ results' = LookupFailures(tcs)
                  /\ order' = Ascending(Len(tcs), DOMAIN LookupFailures(tcs))
                  /\ pc' = "tools"
                  /\ UNCHANGED <<outcome, returned>>
    /\ UNCHANGED llmError
    /\ UNCHANGED fvars

\* callLlm resolves with any decision
LlmResolve == Decide(ToolCallLists)

\* callLlm resolves with a decision whose calls all have the ticker AAPL
LlmResolveOneTicker ==
    Decide({tcs \in ToolCallLists : \A i \in 1..Len(tcs) : tcs[i].args.ticker = "AAPL"})

\* tool.invoke of call i resolves with a string (lines 128-138, or the
\* catch block when the string does not parse)
ToolResolve(i) ==
    /\ pc = "tools"
    /\ i \in invoked /\ i \notin DOMAIN results
    /\ \E raw \in RawResults :
          /\ outcome' = SetProp(outcome, i, [kind |-> "resolved", raw |-> raw])
          /\ results' = SetProp(results, i, ParsedResult(toolCalls[i], raw))
    /\ order' = Append(order, i)
    /\ UNCHANGED <<pc, toolCalls, hasToolCalls, lookups, invoked, returned, llmError>>
    /\ UNCHANGED fvars

\* tool.invoke of call i rejects (lines 139-147)
ToolReject(i) ==
    /\ pc = "tools"
    /\ i \in invoked /\ i \notin DOMAIN results
    /\ \E message \in ToolErrors :
          /\ outcome' = SetProp(outcome, i, [kind |-> "rejected", message |-> message])
          /\ results' = SetProp(results, i, FailureResult(toolCalls[i], message))
    /\ order' = Append(order, i)
    /\ UNCHANGED <<pc, toolCalls, hasToolCalls, lookups, invoked, returned, llmError>>
    /\ UNCHANGED fvars

\* every promise handed to Promise.all is fulfilled
AllSettled == DOMAIN results = 1..Len(toolCalls)

\* Aggregate resuming as soon as one callback has settled
Aggregate_Early ==
    /\ pc = "tools"
    /\ DOMAIN results # {}
    /\ returned' = <<AggregateResults(ResultsInCompletionOrder)>>
    /\ pc' = "done"
    /\ UNCHANGED <<toolCalls, hasToolCalls, lookups, invoked, outcome, results, order, llmError>>
    /\ UNCHANGED fvars

\* Promise.all resolves: partition, merge and return (lines 150-174)
Aggregate ==
    /\ pc = "tools"
    /\ AllSettled
    /\ returned' = <<AggregateResults(ResultsInCallOrder)>>
    /\ pc' = "done"
    /\ UNCHANGED <<toolCalls, hasToolCalls, lookups, invoked, outcome, results, order, llmError>>
    /\ UNCHANGED fvars

(***************************************************************************)
(* fundamentals.ts: the financial-statement adapters                       *)
(***************************************************************************)
\* the `period` enumeration of FinancialStatementsInputSchema
Periods == {"annual", "quarterly", "ttm"}

\* stands for a missing `limit` property of the raw input
NoLimit == 0

\* default of `limit` in FinancialStatementsInputSchema
DefaultLimit == 10

\* raw inputs that pass the schema
StatementInputs == [ticker : {"AAPL", "TSLA"}, period : Periods, limit : {NoLimit, 5}]

\* FinancialStatementsInputSchema applied to a raw input: the default of limit
FinancialStatementsInputSchema(raw) ==
    [raw EXCEPT !.limit = IF raw.limit = NoLimit THEN DefaultLimit ELSE raw.limit]

\* names of the four adapters
StatementTools ==
    {"get_income_statements", "get_balance_sheets",
     "get_cash_flow_statements", "get_all_financial_statements"}

\* payloads the upstream API answers with
ApiData == {"rows1", "rows2"}

\* mapPeriod passing the input value through
mapPeriod_Raw(period) == period

\* mapPeriod: the period value the upstream API understands
mapPeriod(period) ==
    IF period = "quarterly" THEN "quarter"
    ELSE IF period = "annual" THEN "annual"
    ELSE "annual"

\* the arguments of one callApi call
ApiRequest(path, symbol, period, limit) ==
    [path |-> path, params |-> [symbol |-> symbol, period |-> period, limit |-> limit]]

\* callApi resolves with {data, url}; url is the URL of the request
callApi(request, data) ==
    [ data |-> data,
      url  |-> request.path \o "?symbol=" \o request.params.symbol
                \o "&period=" \o request.params.period ]

\* the callApi requests each adapter issues for an input
getIncomeStatements(input) ==
    << ApiRequest("/income-statement", input.ticker, mapPeriod(input.period), input.limit) >>

getBalanceSheets(input) ==
    << ApiRequest("/balance-sheet-statement", input.ticker, mapPeriod(input.period), input.limit) >>

getCashFlowStatements(input) ==
    << ApiRequest("/cash-flow-statement", input.ticker, mapPeriod(input.period), input.limit) >>

getAllFinancialStatements(input) ==
    LET periodParam == mapPeriod(input.period)
    IN  << ApiRequest("/income-statement", input.ticker, periodParam, input.limit),
           ApiRequest("/balance-sheet-statement", input.ticker, periodParam, input.limit),
           ApiRequest("/cash-flow-statement", input.ticker, periodParam, input.limit) >>

RequestsOf(tool, input) ==
    IF tool = "get_income_statements" THEN getIncomeStatements(input)
    ELSE IF tool = "get_balance_sheets" THEN getBalanceSheets(input)
    ELSE IF tool = "get_cash_flow_statements" THEN getCashFlowStatements(input)
    ELSE getAllFinancialStatements(input)

\* the envelope each adapter returns for the responses of its requests
StatementEnvelope(tool, responses) ==
    IF tool = "get_income_statements"
    THEN formatToolResult([income_statements |-> responses[1].data], <<responses[1].url>>)
    ELSE IF tool = "get_balance_sheets"
    THEN formatToolResult([balance_sheets |-> responses[1].data], <<responses[1].url>>)
    ELSE IF tool = "get_cash_flow_statements"
    THEN formatToolResult([cash_flow_statements |-> responses[1].data], <<responses[1].url>>)
    ELSE formatToolResult([ income_statements    |-> responses[1].data,
                            balance_sheets       |-> responses[2].data,
                            cash_flow_statements |-> responses[3].data ],
                          <<responses[1].url>>)

\* func of an adapter is called with a validated input: every callApi of
\* the adapter is issued before the first await
StatementInvoke ==
    /\ fpc = "idle"
    /\ \E tool \in StatementTools, raw \in StatementInputs :
          LET input == FinancialStatementsInputSchema(raw)
          IN  /\ fTool' = tool
              /\ fInput' = input
              /\ fRequests' = RequestsOf(tool, input)
    /\ fpc' = "api"
    /\ UNCHANGED <<fResponses, fReturned, fThrown>>
    /\ UNCHANGED svars

\* request k resolves; when it was the last one, the await (of callApi, or
\* of Promise.all) resumes and the adapter returns its envelope
ApiResolve(k) ==
    /\ fpc = "api"
    /\ k \in 1..Len(fRequests) /\ k \notin DOMAIN fResponses
    /\ \E data \in ApiData :
          LET responses == SetProp(fResponses, k, callApi(fRequests[k], data))
          IN  /\ fResponses' = responses
              /\ IF DOMAIN responses = 1..Len(fRequests)
                 THEN /\ fReturned' = <<StatementEnvelope(fTool, responses)>>
                      /\ fpc' = "done"
                 ELSE UNCHANGED <<fReturned, fpc>>
    /\ UNCHANGED <<fTool, fInput, fRequests, fThrown>>
    /\ UNCHANGED svars

\* request k rejects: the await (of callApi, or of Promise.all) throws and
\* the error leaves the adapter
ApiReject(k) ==
    /\ fpc = "api"
    /\ k \in 1..Len(fRequests) /\ k \notin DOMAIN fResponses
    /\ fThrown' = <<"API request failed">>
    /\ fpc' = "done"
    /\ UNCHANGED <<fTool, fInput, fRequests, fResponses, fReturned>>
    /\ UNCHANGED svars

FNext ==
    \/ StatementInvoke
    \/ \E k \in 1..3 : ApiResolve(k)
    \/ \E k \in 1..3 : ApiReject(k)

SpecFundamentals == Init /\ [][FNext]_vars

Next ==
    \/ Invoke
    \/ LlmReject
    \/ LlmResolve
    \/ \E i \in 1..MaxCalls : ToolResolve(i)
    \/ \E i \in 1..MaxCalls : ToolReject(i)
    \/ Aggregate

Spec == Init /\ [][Next]_vars

\* The dispatcher with the decisions restricted to one ticker: the ticker
\* has no part in when a call settles or when func returns.
NextOneTicker ==
    \/ Invoke
    \/ LlmReject
    \/ LlmResolveOneTicker
    \/ \E i \in 1..MaxCalls : ToolResolve(i)
    \/ \E i \in 1..MaxCalls : ToolReject(i)
    \/ Aggregate

\* Every invocation that is pending settles (the proviso of the claim
\* about completion), and the continuation of a fulfilled Promise.all is
\* run by the event loop.
FairSpec ==
    /\ Init /\ [][NextOneTicker]_vars
    /\ WF_vars((\E i \in 1..MaxCalls : ToolResolve(i) \/ ToolReject(i)) \/ Aggregate)

(***************************************************************************)
(* Properties                                                              *)
(***************************************************************************)
\* the tool calls were dispatched (the map over toolCalls ran)
Dispatched == pc \in {"tools", "done"} /\ lookups # {}

\* func returned from its last line, with the merged results
AggregatedDone == pc = "done" /\ lookups # {}

\* the envelope func returned
Response == returned[1]

Calls == 1..Len(toolCalls)

\* tool.invoke of call i resolved with an envelope that parses
ResolvedWithEnvelope(i) ==
    /\ i \in DOMAIN outcome
    /\ outcome[i].kind = "resolved"
    /\ outcome[i].raw.json

EnvelopeOf(i) == outcome[i].raw.value

EnvelopeUrls(e) == IF "sourceUrls" \in DOMAIN e THEN e.sourceUrls ELSE <<>>

\* C1: a ToolCall whose name is not in the registry yields a result with
\* error set and data null, no adapter is invoked for it, and every other
\* call of the batch whose adapter answers with an envelope still yields a
\* successful result, which the response of the batch holds.
C1_UnknownToolIsolated ==
    Dispatched =>
        \A i \in Calls :
            toolCalls[i].name \notin FINANCE_TOOL_MAP =>
                /\ i \notin invoked
                /\ i \in DOMAIN results
                /\ results[i].error # <<>>
                /\ results[i].data = "null"
                /\ \A j \in Calls \ {i} :
                      /\ toolCalls[j].name \in FINANCE_TOOL_MAP => j \in invoked
                      /\ ResolvedWithEnvelope(j) =>
                            /\ results[j].error = <<>>
                            /\ results[j].data = EnvelopeOf(j).data
                            /\ AggregatedDone => KeyOf(results[j]) \in DOMAIN Response.data

C1_Witness ==
    /\ AggregatedDone
    /\ \E i, j \in Calls :
          /\ toolCalls[i].name \notin FINANCE_TOOL_MAP
          /\ results[i].error = <<NotFoundMessage(toolCalls[i].name)>>
          /\ ResolvedWithEnvelope(j)
          /\ Response.data[KeyOf(results[j])] = EnvelopeOf(j).data

\* C2: a ToolCall naming a registered tool whose adapter returns an
\* envelope yields a result with error null, data equal to the data field
\* of the envelope and sourceUrls equal to the sourceUrls of the envelope,
\* or empty when the envelope has none.
C2_SuccessCarriesEnvelope ==
    \A i \in Calls :
        ResolvedWithEnvelope(i) =>
            /\ toolCalls[i].name \in FINANCE_TOOL_MAP
            /\ results[i].tool = toolCalls[i].name
            /\ results[i].args = toolCalls[i].args
            /\ results[i].error = <<>>
            /\ results[i].data = EnvelopeOf(i).data
            /\ results[i].sourceUrls = EnvelopeUrls(EnvelopeOf(i))

C2_Witness ==
    \E i, j \in Calls :
        /\ ResolvedWithEnvelope(i) /\ ResolvedWithEnvelope(j)
        /\ "sourceUrls" \notin DOMAIN EnvelopeOf(i)
        /\ results[i].sourceUrls = <<>>
        /\ results[j].sourceUrls = <<"u2", "u1">>
        /\ results[j].data = "p2"

\* indices of the calls whose result has error null, and of the others
SuccessIdx == {i \in Calls : results[i].error = <<>>}

FailedIdx == {i \in Calls : results[i].error # <<>>}

\* a successful result other than i and j, later than i, has the key of i
OverwrittenByThird(i, j) ==
    \E k \in SuccessIdx \ {i, j} : k > i /\ KeyOf(results[k]) = KeyOf(results[i])

\* the response holds the payload of result i under key (unless a third
\* result overwrote it)
HoldsUnder(i, j, key) ==
    /\ key \in DOMAIN Response.data
    /\ ~OverwrittenByThird(i, j) => Response.data[key] = results[i].data

TickerOf(i) == toolCalls[i].args.ticker

TickerKey(i) == toolCalls[i].name \o "_" \o TickerOf(i)

\* two successful results of different tools, both without ticker
DifferentToolsNoTicker(i, j) ==
    /\ toolCalls[i].name # toolCalls[j].name
    /\ TickerOf(i) = NoTicker /\ TickerOf(j) = NoTicker

\* two successful results of one tool with different ticker arguments
SameToolDifferentTickers(i, j) ==
    /\ toolCalls[i].name = toolCalls[j].name
    /\ TickerOf(i) # NoTicker /\ TickerOf(j) # NoTicker
    /\ TickerOf(i) # TickerOf(j)

\* C3 as stated: different tools without ticker are keyed by the tool
\* names, one tool with different ticker arguments is keyed by
\* <tool>_<ticker>; each key holds the payload of its own result.
C3_Original ==
    AggregatedDone =>
        \A i, j \in SuccessIdx :
            /\ DifferentToolsNoTicker(i, j) =>
                  /\ HoldsUnder(i, j, toolCalls[i].name)
                  /\ HoldsUnder(j, i, toolCalls[j].name)
            /\ SameToolDifferentTickers(i, j) =>
                  /\ TickerKey(i) # TickerKey(j)
                  /\ HoldsUnder(i, j, TickerKey(i))
                  /\ HoldsUnder(j, i, TickerKey(j))

\* the key the merge step gives call i: an empty ticker counts as none
MergedKey(i) ==
    IF TickerOf(i) = "" THEN toolCalls[i].name ELSE TickerKey(i)

\* C3 (amended): different tools without ticker are keyed by the tool
\* names; one tool with different ticker arguments is keyed by
\* <tool>_<ticker> for a non-empty ticker and by the tool name alone for
\* an empty one; the two keys are distinct and each holds the payload of
\* its own result.
C3_DistinctKeys ==
    AggregatedDone =>
        \A i, j \in SuccessIdx :
            /\ DifferentToolsNoTicker(i, j) =>
                  /\ HoldsUnder(i, j, toolCalls[i].name)
                  /\ HoldsUnder(j, i, toolCalls[j].name)
            /\ SameToolDifferentTickers(i, j) =>
                  /\ MergedKey(i) # MergedKey(j)
                  /\ HoldsUnder(i, j, MergedKey(i))
                  /\ HoldsUnder(j, i, MergedKey(j))

C3_Witness ==
    /\ AggregatedDone
    /\ \E i, j \in SuccessIdx :
          /\ toolCalls[i] = [name |-> "get_price_snapshot", args |-> [ticker |-> "AAPL"]]
          /\ toolCalls[j] = [name |-> "get_price_snapshot", args |-> [ticker |-> "TSLA"]]
          /\ Response.data["get_price_snapshot_AAPL"] = "p1"
          /\ Response.data["get_price_snapshot_TSLA"] = "p2"

\* C4: when callLlm fails, func returns one top-level error with empty
\* sourceUrls; no tool is looked up or invoked, and the response holds
\* neither results nor an _errors list.
C4_LlmFailureIsFatal ==
    llmError # <<>> =>
        /\ pc = "done"
        /\ returned = <<[data |-> [error |-> "LLM call failed: " \o llmError[1]],
                         sourceUrls |-> <<>>]>>
        /\ DOMAIN Response.data = {"error"}
        /\ lookups = {}
        /\ invoked = {}
        /\ DOMAIN results = {}

C4_Witness ==
    /\ pc = "done"
    /\ llmError = <<"Error: timeout">>
    /\ Response.data.error = "LLM call failed: Error: timeout"

\* C5: when the decision has no tool call (list missing or empty), func
\* returns an error saying that no tool was selected, without data keys,
\* URLs or adapter invocation, and the error differs from every error of a
\* failed decision call.
C5_NoToolSelected ==
    (pc = "done" /\ llmError = <<>> /\ (~hasToolCalls \/ Len(toolCalls) = 0)) =>
        /\ Len(returned) = 1
        /\ DOMAIN Response.data = {"error"}
        /\ Response.data.error = "No tools selected for query"
        /\ Response.sourceUrls = <<>>
        /\ lookups = {}
        /\ invoked = {}
        /\ \A e \in LlmErrors : Response.data.error # "LLM call failed: " \o e

C5_Witness ==
    /\ pc = "done"
    /\ hasToolCalls
    /\ toolCalls = <<>>
    /\ llmError = <<>>
    /\ Response.data.error = "No tools selected for query"

\* position of failed call i among the failed calls
FailedRank(i) == Cardinality({j \in FailedIdx : j <= i})

\* the parts of C6 about _errors and about the level of the error
ErrorsListed ==
    /\ Len(returned) = 1
    /\ "error" \notin DOMAIN Response.data
    /\ ("_errors" \in DOMAIN Response.data) <=> (FailedIdx # {})
    /\ FailedIdx # {} =>
          /\ Len(Response.data["_errors"]) = Cardinality(FailedIdx)
          /\ \A i \in FailedIdx :
                Response.data["_errors"][FailedRank(i)] =
                    [tool |-> toolCalls[i].name, args |-> toolCalls[i].args,
                     error |-> results[i].error[1]]

\* C6 as stated: _errors is there if and only if a call failed, with one
\* entry per failed call, and every successful result is present under
\* its key.
C6_Original ==
    AggregatedDone =>
        /\ ErrorsListed
        /\ \A i \in SuccessIdx :
              /\ KeyOf(results[i]) \in DOMAIN Response.data
              /\ Response.data[KeyOf(results[i])] = results[i].data

\* C6 (amended): _errors is there if and only if a call failed, with one
\* entry per failed call; the key of every successful result is present
\* and holds its payload unless a later successful result of the batch has
\* the same key; the response is never a request-level error.
C6_ErrorsBesideSuccesses ==
    AggregatedDone =>
        /\ ErrorsListed
        /\ \A i \in SuccessIdx :
              /\ KeyOf(results[i]) \in DOMAIN Response.data
              /\ (~ \E k \in SuccessIdx : k > i /\ KeyOf(results[k]) = KeyOf(results[i]))
                    => Response.data[KeyOf(results[i])] = results[i].data

C6_Witness ==
    /\ AggregatedDone
    /\ \E i, j \in Calls :
          /\ i \in FailedIdx /\ i \in invoked
          /\ j \in SuccessIdx
          /\ Len(Response.data["_errors"]) = 1
          /\ Response.data["_errors"][1].tool = toolCalls[i].name
          /\ Response.data[KeyOf(results[j])] = results[j].data

\* the URLs of the envelopes of the calls 1..n, in the order of the calls
RECURSIVE ExpectedUrls(_)
ExpectedUrls(n) ==
    IF n = 0 THEN <<>>
    ELSE ExpectedUrls(n - 1)
            \o (IF ResolvedWithEnvelope(n) THEN EnvelopeUrls(EnvelopeOf(n)) ELSE <<>>)

\* C7: sourceUrls of the response is the concatenation, in the order of
\* the ToolCalls, of the sourceUrls of the successful results: nothing for
\* a failed call, duplicates kept, overwritten results included.
C7_UrlsConcatenated ==
    AggregatedDone => Response.sourceUrls = ExpectedUrls(Len(toolCalls))

C7_Witness ==
    /\ AggregatedDone
    /\ Len(toolCalls) = 2
    /\ SuccessIdx = {1, 2}
    /\ KeyOf(results[1]) = KeyOf(results[2])
    /\ results[1].data # results[2].data
    /\ Response.sourceUrls = <<"u1", "u2", "u1">>

\* C8: every registered call of the batch is invoked at dispatch, before
\* any of them settles; func does not return the merged response before
\* every call has settled with its own outcome, whatever the outcome of
\* the others; and once dispatched, func eventually returns it.
C8_CompletesAfterAllSettle ==
    /\ [](Dispatched => invoked = {i \in Calls : toolCalls[i].name \in FINANCE_TOOL_MAP})
    /\ [](AggregatedDone =>
            /\ Len(returned) = 1
            /\ \A i \in Calls : i \in DOMAIN results
            /\ \A i \in invoked : i \in DOMAIN outcome)
    /\ [](Dispatched => <>AggregatedDone)

C8_Witness ==
    /\ AggregatedDone
    /\ Len(toolCalls) = 2
    /\ invoked = {1, 2}
    /\ order = <<1, 2>>
    /\ outcome[1].kind = "rejected"
    /\ outcome[2].kind = "resolved"
    /\ results[2].error = <<>>

\* the last successful call with a key
LastWithKey(key) ==
    CHOOSE i \in SuccessIdx :
        /\ KeyOf(results[i]) = key
        /\ \A j \in SuccessIdx : KeyOf(results[j]) = key => j <= i

\* the failed calls in the order of the call list
FailedEntry(k) ==
    LET i == CHOOSE j \in FailedIdx : FailedRank(j) = k
    IN  [tool |-> toolCalls[i].name, args |-> toolCalls[i].args, error |-> results[i].error[1]]

\* the data of the response as the call list and the outcomes fix it
ExpectedData ==
    LET keys == {KeyOf(results[i]) : i \in SuccessIdx}
    IN  [k \in keys \cup (IF FailedIdx = {} THEN {} ELSE {"_errors"}) |->
            IF k \in keys THEN results[LastWithKey(k)].data
            ELSE [n \in 1..Cardinality(FailedIdx) |-> FailedEntry(n)]]

\* C9: the response is fixed by the call list and the outcome of each
\* call, whatever the order in which the calls settled; of two successful
\* results with one key, the later in the call list is kept.
C9_OrderIndependent ==
    AggregatedDone =>
        Response = [data |-> ExpectedData, sourceUrls |-> ExpectedUrls(Len(toolCalls))]

C9_Witness ==
    /\ AggregatedDone
    /\ order = <<2, 1>>
    /\ SuccessIdx = {1, 2}
    /\ KeyOf(results[1]) = KeyOf(results[2])
    /\ results[1].data = "p2"
    /\ results[2].data = "p1"
    /\ Response.data[KeyOf(results[1])] = "p1"
    /\ Response.sourceUrls = <<"u2", "u1", "u1">>

\* the upstream value of every period of the enumeration
PeriodTable == [annual |-> "annual", quarterly |-> "quarter", ttm |-> "annual"]

\* C10: every period of the enumeration maps to one upstream value
\* (quarterly to quarter, annual to annual, ttm to annual), and each of
\* the four statement adapters sends that value in every request.
C10_PeriodMapped ==
    fpc # "idle" =>
        /\ fInput.period \in Periods
        /\ Len(fRequests) = (IF fTool = "get_all_financial_statements" THEN 3 ELSE 1)
        /\ \A k \in 1..Len(fRequests) :
              /\ fRequests[k].params.period = PeriodTable[fInput.period]
              /\ fRequests[k].params.period \in {"annual", "quarter"}
              /\ fInput.period \in {"quarterly", "ttm"}
                    => fRequests[k].params.period # fInput.period

C10_Witness ==
    /\ fTool = "get_all_financial_statements"
    /\ fInput.period = "ttm"
    /\ Len(fReturned) = 1
    /\ \A k \in 1..3 : fRequests[k].params.period = "annual"
====
